---- MODULE Spec2Model ----
(***************************************************************************)
(* Model of the Google Compute Engine machine driver                       *)
(* (drivers/google/google.go).  The driver is a set of synchronous         *)
(* lifecycle handlers; each handler is an operator that threads an         *)
(* execution context through the provider calls it makes, and one action   *)
(* per handler applies it to the driver and the remote project.            *)
(***************************************************************************)
EXTENDS Naturals, Sequences, FiniteSets

VARIABLES
    d,        \* the Driver struct: the fields the handlers read and write
    gce,      \* the remote project: instance, disk and the two firewall rules
    op,       \* the handler that ran last
    err,      \* the error it returned (Nil for success)
    ret,      \* the value it returned next to the error (state, ip, url)
    calls,    \* the calls it issued, in order, each with its outcome
    turn,     \* parity of the number of handler calls served so far
    stopped   \* "yes": a Stop succeeded and no Start ran since; "created": nor a
              \* Start, but a Create; "no" otherwise

vars == <<d, gce, op, err, ret, calls, turn, stopped>>

\* At most this many calls of one handler fail for a provider-side reason.
MaxFaults == 2

(***************************************************************************)
(* Errors.  An error value is the sequence of the error kinds it carries:  *)
(* the empty sequence is nil, errors.Join concatenates.                    *)
(***************************************************************************)
Nil == <<>>
NotFound == <<"notFound">>
Transient == <<"transient">>
Conflict == <<"conflict">>
ErrHostIsNotRunning == <<"hostIsNotRunning">>
ErrPrefixRequired == <<"externalPrefixRequired">>
ErrUnableToFind == <<"unableToFindInstance">>
ErrAlreadyExists == <<"instanceAlreadyExists">>
ErrProject == <<"projectNotFound">>
ErrUserdata == <<"cannotReadUserdata">>

\* isNotFound(err): the provider's not-found classification.
isNotFound(e) == e = NotFound

\* strings.Contains(err.Error(), "not found"), on the errors c.instance() returns.
ContainsNotFound(e) == e = NotFound

(***************************************************************************)
(* The remote project.                                                     *)
(***************************************************************************)
Absent == "nil"
Statuses == {"PROVISIONING", "STAGING", "RUNNING", "STOPPING", "STOPPED",
             "TERMINATED", "SUSPENDED"}

externalFirewallRuleLabelKey == "external-firewall-rule"
internalFirewallRuleLabelKey == "internal-firewall-rule"
NoLabel == "unlabelled"
\* A firewall rule is Absent or the ownership label it carries.
ExternalRules == {Absent, externalFirewallRuleLabelKey, NoLabel}
InternalRules == {Absent, internalFirewallRuleLabelKey, NoLabel}

NatIP == "203.0.113.7"
NetworkIP == "10.128.0.2"

(***************************************************************************)
(* Execution context of one handler call: the driver, the remote project   *)
(* and the calls issued so far.  F is the set of positions, in the order   *)
(* of the calls issued, at which a call fails for a reason other than the  *)
(* resource being absent.                                                  *)
(***************************************************************************)
Issue(x, name, res) ==
    [x EXCEPT !.calls = Append(@, [call |-> name, arg |-> "", res |-> res])]

IssueWith(x, name, arg, res) ==
    [x EXCEPT !.calls = Append(@, [call |-> name, arg |-> arg, res |-> res])]

Fails(x, F) == (Len(x.calls) + 1) \in F

Ret(x, e, v) == [x |-> x, err |-> e, val |-> v]

\* newComputeUtil(d): builds the provider client from the driver.
newComputeUtil(x, F) ==
    IF Fails(x, F)
    THEN Ret(Issue(x, "newComputeUtil", Transient), Transient, "")
    ELSE Ret(Issue(x, "newComputeUtil", Nil), Nil, "")

\* c.instance(): the instance, or nil and an error.
instance(x, F) ==
    IF Fails(x, F)
    THEN Ret(Issue(x, "instance", Transient), Transient, Absent)
    ELSE IF x.gce.instance = Absent
    THEN Ret(Issue(x, "instance", NotFound), NotFound, Absent)
    ELSE Ret(Issue(x, "instance", Nil), Nil, x.gce.instance)

\* c.disk(): the disk, or nil and an error.
disk(x, F) ==
    IF Fails(x, F)
    THEN Ret(Issue(x, "disk", Transient), Transient, FALSE)
    ELSE IF ~x.gce.disk
    THEN Ret(Issue(x, "disk", NotFound), NotFound, FALSE)
    ELSE Ret(Issue(x, "disk", Nil), Nil, TRUE)

\* The address the driver is configured to use: internal or external.
AddressOf(drv) == IF drv.UseInternalIP THEN NetworkIP ELSE NatIP

\* c.ip(): the address of the instance, taken from its network interface;
\* empty unless the instance runs.
ip(x, F) ==
    IF Fails(x, F)
    THEN Ret(Issue(x, "ip", Transient), Transient, "")
    ELSE IF x.gce.instance = Absent
    THEN Ret(Issue(x, "ip", NotFound), NotFound, "")
    ELSE Ret(Issue(x, "ip", Nil), Nil,
             IF x.gce.instance = "RUNNING" THEN AddressOf(x.d) ELSE "")

\* c.createInstance(d): inserts the instance (and its disk) and waits for it.
createInstance(x, F) ==
    IF Fails(x, F)
    THEN Ret(Issue(x, "createInstance", Transient), Transient, "")
    ELSE IF x.gce.instance # Absent
    THEN Ret(Issue(x, "createInstance", Conflict), Conflict, "")
    ELSE Ret(Issue([x EXCEPT !.gce.instance = "RUNNING", !.gce.disk = TRUE],
                   "createInstance", Nil), Nil, "")

\* c.configureInstance(d): prepares an instance that exists already.
configureInstance(x, F) ==
    IF Fails(x, F)
    THEN Ret(Issue(x, "configureInstance", Transient), Transient, "")
    ELSE IF x.gce.instance = Absent
    THEN Ret(Issue(x, "configureInstance", NotFound), NotFound, "")
    ELSE Ret(Issue(x, "configureInstance", Nil), Nil, "")

\* c.startInstance(): the provider's start action.
startInstance(x, F) ==
    IF Fails(x, F)
    THEN Ret(Issue(x, "startInstance", Transient), Transient, "")
    ELSE IF x.gce.instance = Absent
    THEN Ret(Issue(x, "startInstance", NotFound), NotFound, "")
    ELSE Ret(Issue([x EXCEPT !.gce.instance = "RUNNING"], "startInstance", Nil),
             Nil, "")

\* c.stopInstance(): the provider's stop action.
stopInstance(x, F) ==
    IF Fails(x, F)
    THEN Ret(Issue(x, "stopInstance", Transient), Transient, "")
    ELSE IF x.gce.instance = Absent
    THEN Ret(Issue(x, "stopInstance", NotFound), NotFound, "")
    ELSE Ret(Issue([x EXCEPT !.gce.instance = "TERMINATED"], "stopInstance", Nil),
             Nil, "")

\* c.deleteInstance(): deletes the instance and waits for the deletion.
deleteInstance(x, F) ==
    IF Fails(x, F)
    THEN Ret(Issue(x, "deleteInstance", Transient), Transient, "")
    ELSE IF x.gce.instance = Absent
    THEN Ret(Issue(x, "deleteInstance", NotFound), NotFound, "")
    ELSE Ret(Issue([x EXCEPT !.gce.instance = Absent], "deleteInstance", Nil),
             Nil, "")

\* c.deleteDisk(): deletes the disk and waits for the deletion.
deleteDisk(x, F) ==
    IF Fails(x, F)
    THEN Ret(Issue(x, "deleteDisk", Transient), Transient, "")
    ELSE IF ~x.gce.disk
    THEN Ret(Issue(x, "deleteDisk", NotFound), NotFound, "")
    ELSE Ret(Issue([x EXCEPT !.gce.disk = FALSE], "deleteDisk", Nil), Nil, "")

\* c.externalFirewallRule(): the rule of the deterministic external name.
externalFirewallRule(x, F) ==
    IF Fails(x, F)
    THEN Ret(Issue(x, "externalFirewallRule", Transient), Transient, Absent)
    ELSE IF x.gce.extRule = Absent
    THEN Ret(Issue(x, "externalFirewallRule", NotFound), NotFound, Absent)
    ELSE Ret(Issue(x, "externalFirewallRule", Nil), Nil,
             [name |-> "extRule", label |-> x.gce.extRule])

\* c.internalFirewallRule(): the rule of the deterministic internal name.
internalFirewallRule(x, F) ==
    IF Fails(x, F)
    THEN Ret(Issue(x, "internalFirewallRule", Transient), Transient, Absent)
    ELSE IF x.gce.intRule = Absent
    THEN Ret(Issue(x, "internalFirewallRule", NotFound), NotFound, Absent)
    ELSE Ret(Issue(x, "internalFirewallRule", Nil), Nil,
             [name |-> "intRule", label |-> x.gce.intRule])

\* c.CleanUpFirewallRule(rule, labelKey): deletes the rule only when it carries
\* the ownership label.
CleanUpFirewallRule(x, F, rule, labelKey) ==
    IF Fails(x, F)
    THEN Ret(IssueWith(x, "CleanUpFirewallRule", labelKey, Transient), Transient, "")
    ELSE IF rule.label = labelKey
    THEN Ret(IssueWith([x EXCEPT !.gce[rule.name] = Absent],
                       "CleanUpFirewallRule", labelKey, Nil), Nil, "")
    ELSE Ret(IssueWith(x, "CleanUpFirewallRule", labelKey, Nil), Nil, "")

\* c.openPublicFirewallPorts(d): ensures the external rule; a rule it inserts
\* carries the external ownership label.
openPublicFirewallPorts(x, F) ==
    IF Fails(x, F)
    THEN Ret(Issue(x, "openPublicFirewallPorts", Transient), Transient, "")
    ELSE IF x.gce.extRule = Absent
    THEN Ret(Issue([x EXCEPT !.gce.extRule = externalFirewallRuleLabelKey],
                   "openPublicFirewallPorts", Nil), Nil, "")
    ELSE Ret(Issue(x, "openPublicFirewallPorts", Nil), Nil, "")

\* c.openInternalFirewallPorts(d): ensures the internal rule likewise.
openInternalFirewallPorts(x, F) ==
    IF Fails(x, F)
    THEN Ret(Issue(x, "openInternalFirewallPorts", Transient), Transient, "")
    ELSE IF x.gce.intRule = Absent
    THEN Ret(Issue([x EXCEPT !.gce.intRule = internalFirewallRuleLabelKey],
                   "openInternalFirewallPorts", Nil), Nil, "")
    ELSE Ret(Issue(x, "openInternalFirewallPorts", Nil), Nil, "")

\* c.service.Projects.Get(d.Project).Do()
ProjectsGet(x, F) ==
    IF Fails(x, F)
    THEN Ret(Issue(x, "Projects.Get", Transient), Transient, "")
    ELSE Ret(Issue(x, "Projects.Get", Nil), Nil, "")

\* ssh.GenerateSSHKey(d.GetSSHKeyPath())
GenerateSSHKey(x, F) ==
    IF Fails(x, F)
    THEN Ret(Issue(x, "GenerateSSHKey", Transient), Transient, "")
    ELSE Ret(Issue(x, "GenerateSSHKey", Nil), Nil, "")

\* The local file system: one user-data file.
UserdataPath == "/etc/user-data.yml"
UserdataText == "#cloud-config"

\* os.ReadFile(path)
ReadFile(x, F, path) ==
    IF Fails(x, F)
    THEN Ret(IssueWith(x, "ReadFile", path, Transient), Transient, "")
    ELSE IF path # UserdataPath
    THEN Ret(IssueWith(x, "ReadFile", path, NotFound), NotFound, "")
    ELSE Ret(IssueWith(x, "ReadFile", path, Nil), Nil, UserdataText)

(***************************************************************************)
(* The handlers of the driver.                                             *)
(***************************************************************************)

\* PreCreateCheck as it would be if it prepared the instance it found.
PreCreateCheckConfiguring(x, F) ==
    LET c == newComputeUtil(x, F) IN
    IF c.err # Nil THEN Ret(c.x, c.err, "")
    ELSE LET p == ProjectsGet(c.x, F) IN
         IF p.err # Nil THEN Ret(p.x, ErrProject, "")
         ELSE LET i == instance(p.x, F) IN
              IF x.d.UseExisting /\ i.val = Absent THEN Ret(i.x, ErrUnableToFind, "")
              ELSE IF ~x.d.UseExisting /\ i.val # Absent
              THEN Ret(i.x, ErrAlreadyExists, "")
              ELSE IF x.d.UseExisting THEN configureInstance(i.x, F)
              ELSE Ret(i.x, Nil, "")

\* PreCreateCheck is called to enforce pre-creation steps.
PreCreateCheck(x, F) ==
    LET c == newComputeUtil(x, F) IN
    IF c.err # Nil THEN Ret(c.x, c.err, "")
    ELSE LET p == ProjectsGet(c.x, F) IN
         IF p.err # Nil THEN Ret(p.x, ErrProject, "")
         ELSE LET i == instance(p.x, F) IN
              IF x.d.UseExisting /\ i.val = Absent THEN Ret(i.x, ErrUnableToFind, "")
              ELSE IF ~x.d.UseExisting /\ i.val # Absent
              THEN Ret(i.x, ErrAlreadyExists, "")
              ELSE IF x.d.Userdata # ""
              THEN LET f == ReadFile(i.x, F, x.d.Userdata) IN
                   IF f.err # Nil THEN Ret(f.x, ErrUserdata, "")
                   ELSE Ret([f.x EXCEPT !.d.Userdata = f.val], Nil, "")
              ELSE Ret(i.x, Nil, "")

\* Create as it would be if it checked the external prefix inside the reconcile,
\* after the internal rule.
CreateLatePrefixCheck(x, F) ==
    LET k == GenerateSSHKey(x, F) IN
    IF k.err # Nil THEN Ret(k.x, k.err, "")
    ELSE LET c == newComputeUtil(k.x, F) IN
    IF c.err # Nil THEN Ret(c.x, c.err, "")
    ELSE LET n == IF x.d.InternalFirewallRulePrefix # ""
                  THEN openInternalFirewallPorts(c.x, F)
                  ELSE Ret(c.x, Nil, "") IN
    IF n.err # Nil THEN Ret(n.x, n.err, "")
    ELSE IF Len(x.d.OpenPorts) > 0 /\ x.d.ExternalFirewallRulePrefix = ""
    THEN Ret(n.x, ErrPrefixRequired, "")
    ELSE LET e == IF Len(x.d.OpenPorts) > 0
                  THEN openPublicFirewallPorts(n.x, F)
                  ELSE Ret(n.x, Nil, "") IN
    IF e.err # Nil THEN Ret(e.x, e.err, "")
    ELSE IF x.d.UseExisting THEN configureInstance(e.x, F)
    ELSE createInstance(e.x, F)

\* Create as it would be if it only logged a failed internal reconcile.
CreateIgnoringInternal(x, F) ==
    LET k == GenerateSSHKey(x, F) IN
    IF k.err # Nil THEN Ret(k.x, k.err, "")
    ELSE LET c == newComputeUtil(k.x, F) IN
    IF c.err # Nil THEN Ret(c.x, c.err, "")
    ELSE IF Len(x.d.OpenPorts) > 0 /\ x.d.ExternalFirewallRulePrefix = ""
    THEN Ret(c.x, ErrPrefixRequired, "")
    ELSE LET e == IF Len(x.d.OpenPorts) > 0
                  THEN openPublicFirewallPorts(c.x, F)
                  ELSE Ret(c.x, Nil, "") IN
    IF e.err # Nil THEN Ret(e.x, e.err, "")
    ELSE LET n == IF x.d.InternalFirewallRulePrefix # ""
                  THEN openInternalFirewallPorts(e.x, F)
                  ELSE Ret(e.x, Nil, "") IN
    IF x.d.UseExisting THEN configureInstance(n.x, F)
    ELSE createInstance(n.x, F)

\* Create creates a VM instance acting as a docker host.
Create(x, F) ==
    LET k == GenerateSSHKey(x, F) IN
    IF k.err # Nil THEN Ret(k.x, k.err, "")
    ELSE LET c == newComputeUtil(k.x, F) IN
    IF c.err # Nil THEN Ret(c.x, c.err, "")
    ELSE IF Len(x.d.OpenPorts) > 0 /\ x.d.ExternalFirewallRulePrefix = ""
    THEN Ret(c.x, ErrPrefixRequired, "")
    ELSE LET e == IF Len(x.d.OpenPorts) > 0
                  THEN openPublicFirewallPorts(c.x, F)
                  ELSE Ret(c.x, Nil, "") IN
    IF e.err # Nil THEN Ret(e.x, e.err, "")
    ELSE LET n == IF x.d.InternalFirewallRulePrefix # ""
                  THEN openInternalFirewallPorts(e.x, F)
                  ELSE Ret(e.x, Nil, "") IN
    IF n.err # Nil THEN Ret(n.x, n.err, "")
    ELSE IF x.d.UseExisting THEN configureInstance(n.x, F)
    ELSE createInstance(n.x, F)


\* GetIP as it would be if it answered with the address the driver cached.
GetIPFromCache(x, F) ==
    LET c == newComputeUtil(x, F) IN
    IF c.err # Nil THEN Ret(c.x, c.err, "")
    ELSE IF x.d.IPAddress # "" THEN Ret(c.x, Nil, x.d.IPAddress)
    ELSE LET a == ip(c.x, F) IN
         IF a.err # Nil THEN Ret(a.x, a.err, "")
         ELSE IF a.val = "" THEN Ret(a.x, ErrHostIsNotRunning, "")
         ELSE Ret(a.x, Nil, a.val)

\* GetIP returns the IP address of the GCE instance.
GetIP(x, F) ==
    LET c == newComputeUtil(x, F) IN
    IF c.err # Nil THEN Ret(c.x, c.err, "")
    ELSE LET a == ip(c.x, F) IN
         IF a.err # Nil THEN Ret(a.x, a.err, "")
         ELSE IF a.val = "" THEN Ret(a.x, ErrHostIsNotRunning, "")
         ELSE Ret(a.x, Nil, a.val)

\* fmt.Sprintf("tcp://%s", net.JoinHostPort(ip, port)) on the addresses of the model.
JoinHostPort(host, port) ==
    CASE host = NatIP /\ port = "2376" -> "tcp://203.0.113.7:2376"
      [] host = NetworkIP /\ port = "2376" -> "tcp://10.128.0.2:2376"
      [] OTHER -> "tcp://"

\* GetURL returns the URL of the remote docker daemon.
GetURL(x, F) ==
    LET g == GetIP(x, F) IN
    IF g.err # Nil THEN Ret(g.x, g.err, "")
    ELSE Ret(g.x, Nil, JoinHostPort(g.val, "2376"))

\* GetState as it would be if it went on to the disk after a not-found probe.
GetStateDiskFirst(x, F) ==
    LET c == newComputeUtil(x, F) IN
    IF c.err # Nil THEN Ret(c.x, c.err, "None")
    ELSE LET i == instance(c.x, F) IN
         IF i.val = Absent
         THEN LET k == disk(i.x, F) IN
              IF ~k.val THEN Ret(k.x, Nil, "None")
              ELSE Ret(k.x, Nil, "Stopped")
         ELSE IF i.val \in {"PROVISIONING", "STAGING"} THEN Ret(i.x, Nil, "Starting")
         ELSE IF i.val = "RUNNING" THEN Ret(i.x, Nil, "Running")
         ELSE IF i.val \in {"STOPPING", "STOPPED", "TERMINATED"}
         THEN Ret(i.x, Nil, "Stopped")
         ELSE Ret(i.x, Nil, "None")

\* GetState returns the current state of the host.
GetState(x, F) ==
    LET c == newComputeUtil(x, F) IN
    IF c.err # Nil THEN Ret(c.x, c.err, "None")
    ELSE LET i == instance(c.x, F) IN
         IF i.val = Absent
         THEN IF i.err # Nil /\ ContainsNotFound(i.err) THEN Ret(i.x, Nil, "NotFound")
              ELSE LET k == disk(i.x, F) IN
                   IF ~k.val THEN Ret(k.x, Nil, "None")
                   ELSE Ret(k.x, Nil, "Stopped")
         ELSE IF i.val \in {"PROVISIONING", "STAGING"} THEN Ret(i.x, Nil, "Starting")
         ELSE IF i.val = "RUNNING" THEN Ret(i.x, Nil, "Running")
         ELSE IF i.val \in {"STOPPING", "STOPPED", "TERMINATED"}
         THEN Ret(i.x, Nil, "Stopped")
         ELSE Ret(i.x, Nil, "None")

\* Start as it would be if it took every failed probe for an absent instance.
StartIgnoringProbeError(x, F) ==
    LET c == newComputeUtil(x, F) IN
    IF c.err # Nil THEN Ret(c.x, c.err, "")
    ELSE LET i == instance(c.x, F)
             m == IF i.val = Absent THEN createInstance(i.x, F)
                  ELSE startInstance(i.x, F) IN
         IF m.err # Nil THEN Ret(m.x, m.err, "")
         ELSE LET g == GetIP(m.x, F) IN
              Ret([g.x EXCEPT !.d.IPAddress = g.val], g.err, "")

\* Start as it would be if it ran the whole of Create for an absent instance.
StartViaCreate(x, F) ==
    LET c == newComputeUtil(x, F) IN
    IF c.err # Nil THEN Ret(c.x, c.err, "")
    ELSE LET i == instance(c.x, F) IN
         IF i.err # Nil /\ ~isNotFound(i.err) THEN Ret(i.x, i.err, "")
         ELSE LET m == IF i.val = Absent THEN Create(i.x, F)
                       ELSE startInstance(i.x, F) IN
              IF m.err # Nil THEN Ret(m.x, m.err, "")
              ELSE LET g == GetIP(m.x, F) IN
                   Ret([g.x EXCEPT !.d.IPAddress = g.val], g.err, "")

\* Start as it would be if it cached only an address it resolved.
StartKeepingStale(x, F) ==
    LET c == newComputeUtil(x, F) IN
    IF c.err # Nil THEN Ret(c.x, c.err, "")
    ELSE LET i == instance(c.x, F) IN
         IF i.err # Nil /\ ~isNotFound(i.err) THEN Ret(i.x, i.err, "")
         ELSE LET m == IF i.val = Absent THEN createInstance(i.x, F)
                       ELSE startInstance(i.x, F) IN
              IF m.err # Nil THEN Ret(m.x, m.err, "")
              ELSE LET g == GetIP(m.x, F) IN
                   IF g.err # Nil THEN Ret(g.x, g.err, "")
                   ELSE Ret([g.x EXCEPT !.d.IPAddress = g.val], Nil, "")

\* Start starts an existing instance or creates one.
Start(x, F) ==
    LET c == newComputeUtil(x, F) IN
    IF c.err # Nil THEN Ret(c.x, c.err, "")
    ELSE LET i == instance(c.x, F) IN
         IF i.err # Nil /\ ~isNotFound(i.err) THEN Ret(i.x, i.err, "")
         ELSE LET m == IF i.val = Absent THEN createInstance(i.x, F)
                       ELSE startInstance(i.x, F) IN
              IF m.err # Nil THEN Ret(m.x, m.err, "")
              ELSE LET g == GetIP(m.x, F) IN
                   Ret([g.x EXCEPT !.d.IPAddress = g.val], g.err, "")

\* Stop as it would be if it cleared the address before the provider call.
StopClearingFirst(x, F) ==
    LET c == newComputeUtil(x, F) IN
    IF c.err # Nil THEN Ret(c.x, c.err, "")
    ELSE LET s == stopInstance([c.x EXCEPT !.d.IPAddress = ""], F) IN
         IF s.err # Nil THEN Ret(s.x, s.err, "")
         ELSE Ret(s.x, Nil, "")

\* Stop stops an existing instance.
Stop(x, F) ==
    LET c == newComputeUtil(x, F) IN
    IF c.err # Nil THEN Ret(c.x, c.err, "")
    ELSE LET s == stopInstance(c.x, F) IN
         IF s.err # Nil THEN Ret(s.x, s.err, "")
         ELSE Ret([s.x EXCEPT !.d.IPAddress = ""], Nil, "")

\* Restart as it would be if it started the machine whatever Stop returned.
RestartIgnoringStop(x, F) == Start(Stop(x, F).x, F)

\* Restart restarts a machine which is known to be running.
Restart(x, F) ==
    LET s == Stop(x, F) IN
    IF s.err # Nil THEN Ret(s.x, s.err, "")
    ELSE Start(s.x, F)

\* Kill as it would be if it stopped the instance and kept the cached address.
KillKeepingAddress(x, F) ==
    LET c == newComputeUtil(x, F) IN
    IF c.err # Nil THEN Ret(c.x, c.err, "")
    ELSE LET s == stopInstance(c.x, F) IN
         IF s.err # Nil THEN Ret(s.x, s.err, "")
         ELSE Ret(s.x, Nil, "")

\* Kill stops an existing instance.
Kill(x, F) == Stop(x, F)

\* The external step as it would be if it deleted the rule it fetched by name.
RemoveExternalRuleByName(x, errs, F) ==
    LET r == externalFirewallRule(x, F) IN
    IF isNotFound(r.err) THEN [x |-> r.x, errs |-> errs]
    ELSE IF r.err # Nil THEN [x |-> r.x, errs |-> errs \o r.err]
    ELSE LET u == CleanUpFirewallRule(r.x, F, r.val, r.val.label) IN
         [x |-> u.x, errs |-> errs \o u.err]

\* The two firewall steps of Remove: each adds its error, if any, to x.errs.
RemoveExternalRule(x, errs, F) ==
    LET r == externalFirewallRule(x, F) IN
    IF isNotFound(r.err) THEN [x |-> r.x, errs |-> errs]
    ELSE IF r.err # Nil THEN [x |-> r.x, errs |-> errs \o r.err]
    ELSE LET u == CleanUpFirewallRule(r.x, F, r.val, externalFirewallRuleLabelKey) IN
         [x |-> u.x, errs |-> errs \o u.err]

\* The internal step as it would be if an earlier failure made Remove skip it.
RemoveInternalRuleUnlessFailed(x, errs, F) ==
    IF errs # <<>> THEN [x |-> x, errs |-> errs]
    ELSE LET r == internalFirewallRule(x, F) IN
         IF isNotFound(r.err) THEN [x |-> r.x, errs |-> errs]
         ELSE IF r.err # Nil THEN [x |-> r.x, errs |-> errs \o r.err]
         ELSE LET u == CleanUpFirewallRule(r.x, F, r.val, internalFirewallRuleLabelKey) IN
              [x |-> u.x, errs |-> errs \o u.err]

RemoveInternalRule(x, errs, F) ==
    LET r == internalFirewallRule(x, F) IN
    IF isNotFound(r.err) THEN [x |-> r.x, errs |-> errs]
    ELSE IF r.err # Nil THEN [x |-> r.x, errs |-> errs \o r.err]
    ELSE LET u == CleanUpFirewallRule(r.x, F, r.val, internalFirewallRuleLabelKey) IN
         [x |-> u.x, errs |-> errs \o u.err]

\* Remove as it would be if it collected the errors of the two deletes too.
RemoveCollectingAll(x, F) ==
    LET c == newComputeUtil(x, F) IN
    IF c.err # Nil THEN Ret(c.x, c.err, "")
    ELSE LET i == deleteInstance(c.x, F)
             k == deleteDisk(i.x, F)
             e0 == (IF isNotFound(i.err) THEN <<>> ELSE i.err)
                   \o (IF isNotFound(k.err) THEN <<>> ELSE k.err)
             e == IF Len(x.d.OpenPorts) > 0
                  THEN RemoveExternalRule(k.x, e0, F)
                  ELSE [x |-> k.x, errs |-> e0]
             n == IF x.d.InternalFirewallRulePrefix # ""
                  THEN RemoveInternalRule(e.x, e.errs, F)
                  ELSE e IN
         Ret(n.x, n.errs, "")

\* Remove as it would be if an instance that is gone already were an error.
RemoveStrict(x, F) ==
    LET c == newComputeUtil(x, F) IN
    IF c.err # Nil THEN Ret(c.x, c.err, "")
    ELSE LET i == deleteInstance(c.x, F) IN
    IF i.err # Nil THEN Ret(i.x, i.err, "")
    ELSE LET k == deleteDisk(i.x, F) IN
    IF k.err # Nil /\ ~isNotFound(k.err) THEN Ret(k.x, k.err, "")
    ELSE LET e == IF Len(x.d.OpenPorts) > 0
                  THEN RemoveExternalRule(k.x, <<>>, F)
                  ELSE [x |-> k.x, errs |-> <<>>]
             n == IF x.d.InternalFirewallRulePrefix # ""
                  THEN RemoveInternalRule(e.x, e.errs, F)
                  ELSE e IN
         Ret(n.x, n.errs, "")

\* Remove as it would be if a disk that is gone were an error.
RemoveStrictDisk(x, F) ==
    LET c == newComputeUtil(x, F) IN
    IF c.err # Nil THEN Ret(c.x, c.err, "")
    ELSE LET i == deleteInstance(c.x, F) IN
    IF i.err # Nil /\ ~isNotFound(i.err) THEN Ret(i.x, i.err, "")
    ELSE LET k == deleteDisk(i.x, F) IN
    IF k.err # Nil THEN Ret(k.x, k.err, "")
    ELSE LET e == IF Len(x.d.OpenPorts) > 0
                  THEN RemoveExternalRule(k.x, <<>>, F)
                  ELSE [x |-> k.x, errs |-> <<>>]
             n == IF x.d.InternalFirewallRulePrefix # ""
                  THEN RemoveInternalRule(e.x, e.errs, F)
                  ELSE e IN
         Ret(n.x, n.errs, "")

\* Remove deletes the instance and the disk, then the firewall rules.
Remove(x, F) ==
    LET c == newComputeUtil(x, F) IN
    IF c.err # Nil THEN Ret(c.x, c.err, "")
    ELSE LET i == deleteInstance(c.x, F) IN
    IF i.err # Nil /\ ~isNotFound(i.err) THEN Ret(i.x, i.err, "")
    ELSE LET k == deleteDisk(i.x, F) IN
    IF k.err # Nil /\ ~isNotFound(k.err) THEN Ret(k.x, k.err, "")
    ELSE LET e == IF Len(x.d.OpenPorts) > 0
                  THEN RemoveExternalRule(k.x, <<>>, F)
                  ELSE [x |-> k.x, errs |-> <<>>]
             n == IF x.d.InternalFirewallRulePrefix # ""
                  THEN RemoveInternalRule(e.x, e.errs, F)
                  ELSE e IN
         Ret(n.x, n.errs, "")

(***************************************************************************)
(* State machine.                                                          *)
(***************************************************************************)
Faults(n) == {F \in SUBSET (1..n) : Cardinality(F) <= MaxFaults}

Ctx == [d |-> d, gce |-> gce, calls |-> <<>>]

Serve(name, r) ==
    /\ d' = r.x.d
    /\ gce' = r.x.gce
    /\ calls' = r.x.calls
    /\ op' = name
    /\ err' = r.err
    /\ ret' = r.val
    /\ turn' = 1 - turn
    /\ stopped' = IF name \in {"Stop", "Kill"} /\ r.err = Nil THEN "yes"
                  ELSE IF name \in {"Start", "Restart"} THEN "no"
                  ELSE IF name = "Create" /\ stopped = "yes" THEN "created"
                  ELSE stopped

\* NewDriver: the driver's fields are zero.
NewDriver ==
    [UseExisting |-> FALSE, OpenPorts |-> <<>>,
     ExternalFirewallRulePrefix |-> "", InternalFirewallRulePrefix |-> "",
     Userdata |-> "", UseInternalIP |-> FALSE, IPAddress |-> ""]

\* The values the host tool gives the fields when it configures the driver
\* (SetConfigFromFlags on creation, UnmarshalJSON on loading a stored host).
FirewallConfigs ==
    {[NewDriver EXCEPT !.UseExisting = u, !.OpenPorts = p,
                       !.ExternalFirewallRulePrefix = e,
                       !.InternalFirewallRulePrefix = i] :
        u \in BOOLEAN, p \in {<<>>, <<"8080/tcp">>},
        e \in {"", "ext"}, i \in {"", "int"}}

RemoteOf(statuses, externals, internals) ==
    [instance : statuses \cup {Absent}, disk : BOOLEAN,
     extRule : externals, intRule : internals]

Started(D, G) ==
    /\ d \in D
    /\ gce \in G
    /\ op = "NewDriver"
    /\ err = Nil
    /\ ret = ""
    /\ calls = <<>>
    /\ turn = 0
    /\ stopped = "no"

CallPreCreateCheck == \E F \in Faults(4) : Serve("PreCreateCheck", PreCreateCheck(Ctx, F))
CallCreate == \E F \in Faults(5) : Serve("Create", Create(Ctx, F))
CallGetURL == \E F \in Faults(2) : Serve("GetURL", GetURL(Ctx, F))
CallGetIP == \E F \in Faults(2) : Serve("GetIP", GetIP(Ctx, F))
CallGetState == \E F \in Faults(3) : Serve("GetState", GetState(Ctx, F))
CallStart == \E F \in Faults(5) : Serve("Start", Start(Ctx, F))
CallStop == \E F \in Faults(2) : Serve("Stop", Stop(Ctx, F))
CallRestart == \E F \in Faults(7) : Serve("Restart", Restart(Ctx, F))
CallKill == \E F \in Faults(2) : Serve("Kill", Kill(Ctx, F))
CallRemove == \E F \in Faults(7) : Serve("Remove", Remove(Ctx, F))

(***************************************************************************)
(* Spec: a driver with the default configuration, new or loaded from the   *)
(* store with the address it cached, facing every state of the instance    *)
(* and the disk; every handler, in any order.                              *)
(***************************************************************************)
Init ==
    Started(UNION {{[NewDriver EXCEPT !.UseInternalIP = i, !.IPAddress = a] :
                        a \in {"", AddressOf([UseInternalIP |-> i])}} :
                   i \in BOOLEAN},
            RemoteOf(Statuses, {Absent}, {Absent}))

Next ==
    \/ CallPreCreateCheck
    \/ CallCreate
    \/ CallGetURL
    \/ CallGetIP
    \/ CallGetState
    \/ CallStart
    \/ CallStop
    \/ CallRestart
    \/ CallKill
    \/ CallRemove

Spec == Init /\ [][Next]_vars

(***************************************************************************)
(* SpecRemove: Remove, repeated, under every firewall configuration and    *)
(* every state of the remote project.                                      *)
(***************************************************************************)
InitRemove ==
    Started(FirewallConfigs,
            RemoteOf({"RUNNING", "TERMINATED"}, ExternalRules, InternalRules))

NextRemove == CallRemove

SpecRemove == InitRemove /\ [][NextRemove]_vars

(***************************************************************************)
(* SpecCreate: Create and Start under every firewall configuration and     *)
(* every state of the remote project.                                      *)
(***************************************************************************)
InitCreate ==
    Started(FirewallConfigs,
            RemoteOf({"RUNNING", "TERMINATED"}, ExternalRules, InternalRules))

NextCreate ==
    \/ CallCreate
    \/ CallStart

SpecCreate == InitCreate /\ [][NextCreate]_vars

(***************************************************************************)
(* SpecPreCreate: PreCreateCheck in both modes, with and without a         *)
(* user-data file, facing every state of the instance and the disk.        *)
(***************************************************************************)
InitPreCreate ==
    Started({[NewDriver EXCEPT !.UseExisting = u, !.Userdata = f] :
                u \in BOOLEAN, f \in {"", UserdataPath}},
            RemoteOf(Statuses, {Absent}, {Absent}))

NextPreCreate == CallPreCreateCheck

SpecPreCreate == InitPreCreate /\ [][NextPreCreate]_vars
(***************************************************************************)
(* Properties.  The calls of the handler that ran last are in `calls`; a   *)
(* step's primed variables describe the handler it runs.                   *)
(***************************************************************************)
Has(cs, name) == \E i \in 1..Len(cs) : cs[i].call = name

At(cs, i, name) == i <= Len(cs) /\ cs[i].call = name

FailedAt(cs, i, name) == At(cs, i, name) /\ cs[i].res = Transient

NoTransient(cs) == \A i \in 1..Len(cs) : cs[i].res # Transient

TransientsOf(cs) == SelectSeq(cs, LAMBDA c : c.res = Transient)

Mutating ==
    {"createInstance", "configureInstance", "startInstance", "stopInstance",
     "deleteInstance", "deleteDisk", "CleanUpFirewallRule",
     "openPublicFirewallPorts", "openInternalFirewallPorts"}

Mutations(cs) ==
    LET m == SelectSeq(cs, LAMBDA c : c.call \in Mutating) IN
    [i \in 1..Len(m) |-> m[i].call]

\* The calls of one firewall step of Remove, from position i on.
RuleStepDone(cs, i, fetch) ==
    /\ At(cs, i, fetch)
    /\ cs[i].res = Nil => At(cs, i + 1, "CleanUpFirewallRule")

RuleStepLen(cs, i) == IF cs[i].res = Nil THEN 2 ELSE 1

FoundBy(cs) ==
    SelectSeq(cs, LAMBDA c : c.call # "newComputeUtil" /\ c.res # NotFound)

\* C2 as claimed: of two consecutive Remove calls in which no call fails
\* transiently, both return success and the second observes only not-found
\* conditions and changes no remote state.
C2_RemoveTwiceOnlyNotFound ==
    [][(op = "Remove" /\ NoTransient(calls) /\ op' = "Remove" /\ NoTransient(calls')) =>
        /\ err = Nil
        /\ err' = Nil
        /\ gce' = gce
        /\ FoundBy(calls') = <<>>
    ]_vars

\* A call that met a rule of the deterministic name without the ownership label.
OnUnlabelled(g, c) ==
    \/ c.call = "externalFirewallRule" /\ c.res = Nil /\ g.extRule = NoLabel
    \/ c.call = "internalFirewallRule" /\ c.res = Nil /\ g.intRule = NoLabel
    \/ c.call = "CleanUpFirewallRule" /\ c.res = Nil /\ c.arg = externalFirewallRuleLabelKey
          /\ g.extRule = NoLabel
    \/ c.call = "CleanUpFirewallRule" /\ c.res = Nil /\ c.arg = internalFirewallRuleLabelKey
          /\ g.intRule = NoLabel

\* C2 amended: of two consecutive Remove calls in which no call fails
\* transiently, both return success and the second changes no remote state; it
\* observes not-found for the instance, the disk and every firewall rule it
\* fetches, except a rule that lacks the ownership label, which both calls
\* leave in place and the second finds again.
C2_RemoveTwice ==
    [][(op = "Remove" /\ NoTransient(calls) /\ op' = "Remove" /\ NoTransient(calls')) =>
        /\ err = Nil
        /\ err' = Nil
        /\ gce' = gce
        /\ \A i \in 1..Len(calls') :
              \/ calls'[i].call = "newComputeUtil"
              \/ calls'[i].res = NotFound
              \/ OnUnlabelled(gce, calls'[i])
    ]_vars

\* C2 witness: a second Remove in a row, after the first deleted what was there.
C2_Witness ==
    /\ op = "Remove"
    /\ turn = 0
    /\ NoTransient(calls)
    /\ err = Nil
    /\ Len(calls) >= 5
    /\ FoundBy(calls) = <<>>
\* The State Inference table on an instance that was returned.
StateOfStatus(status) ==
    CASE status \in {"PROVISIONING", "STAGING"} -> "Starting"
      [] status = "RUNNING" -> "Running"
      [] status \in {"STOPPING", "STOPPED", "TERMINATED"} -> "Stopped"
      [] OTHER -> "None"

\* C3: once the client is built GetState returns no error and the state of the
\* table: NotFound for a not-found probe; for a probe that failed otherwise,
\* Stopped when the disk probe returns a disk and None when it does not; for an
\* instance that was returned, the state of its status; Running only for a
\* returned instance whose status is RUNNING.
C3_GetStateTable ==
    (op = "GetState" /\ At(calls, 1, "newComputeUtil") /\ calls[1].res = Nil) =>
        /\ At(calls, 2, "instance")
        /\ err = Nil
        /\ calls[2].res = NotFound => ret = "NotFound"
        /\ calls[2].res = Transient =>
              /\ At(calls, 3, "disk")
              /\ ret = IF calls[3].res = Nil THEN "Stopped" ELSE "None"
              /\ calls[3].res # Transient => (ret = "Stopped") = gce.disk
        /\ calls[2].res = Nil => ret = StateOfStatus(gce.instance)
        /\ ret = "Running" => calls[2].res = Nil /\ gce.instance = "RUNNING"

\* C3 witness: the instance probe failed without not-found and the disk is there.
C3_Witness ==
    /\ op = "GetState"
    /\ FailedAt(calls, 2, "instance")
    /\ At(calls, 3, "disk")
    /\ calls[3].res = Nil
    /\ ret = "Stopped"

\* C4 as claimed: once the project check has passed, PreCreateCheck fails with
\* instance-not-found when useExisting is set and no instance exists, and with
\* already-exists when useExisting is not set and an instance exists.
C4_ModeConsistency ==
    (op = "PreCreateCheck" /\ At(calls, 2, "Projects.Get") /\ calls[2].res = Nil) =>
        /\ (d.UseExisting /\ gce.instance = Absent) => err = ErrUnableToFind
        /\ (~d.UseExisting /\ gce.instance # Absent) => err = ErrAlreadyExists

\* C5: Create with open ports and no external prefix returns an error, issues
\* no mutating provider call and leaves the remote project as it is.
C5_CreateNeedsExternalPrefix ==
    [][(op' = "Create" /\ Len(d.OpenPorts) > 0 /\ d.ExternalFirewallRulePrefix = "") =>
        /\ err' # Nil
        /\ Mutations(calls') = <<>>
        /\ gce' = gce
        /\ NoTransient(calls') => err' = ErrPrefixRequired
    ]_vars

\* C5 witness: Create refused open ports without a prefix, an internal prefix set.
C5_Witness ==
    /\ op = "Create"
    /\ err = ErrPrefixRequired
    /\ Len(d.OpenPorts) > 0
    /\ d.InternalFirewallRulePrefix # ""

Position(cs, name) == CHOOSE i \in 1..Len(cs) : cs[i].call = name

InstanceCalls == {"createInstance", "configureInstance"}

\* C6: in Create the instance call comes after the successful external
\* reconcile (open ports) and the successful internal reconcile (internal
\* prefix), the external one first; a failed reconcile is Create's error, and
\* then no instance call is issued and the instance is as it was.
C6_FirewallBeforeInstance ==
    [][op' = "Create" =>
        LET cs == calls' IN
        /\ \A i \in 1..Len(cs) : cs[i].call \in InstanceCalls =>
              /\ Len(d.OpenPorts) > 0 =>
                    \E j \in 1..(i - 1) :
                        cs[j].call = "openPublicFirewallPorts" /\ cs[j].res = Nil
              /\ d.InternalFirewallRulePrefix # "" =>
                    \E j \in 1..(i - 1) :
                        cs[j].call = "openInternalFirewallPorts" /\ cs[j].res = Nil
        /\ (Has(cs, "openPublicFirewallPorts") /\ Has(cs, "openInternalFirewallPorts")) =>
              Position(cs, "openPublicFirewallPorts") < Position(cs, "openInternalFirewallPorts")
        /\ \A j \in 1..Len(cs) :
              (cs[j].call \in {"openPublicFirewallPorts", "openInternalFirewallPorts"}
                  /\ cs[j].res # Nil) =>
                  /\ err' = cs[j].res
                  /\ \A i \in 1..Len(cs) : cs[i].call \notin InstanceCalls
                  /\ gce'.instance = gce.instance
                  /\ gce'.disk = gce.disk
    ]_vars

\* C6 witness: both reconciles succeeded, in order, and then the instance call.
C6_Witness ==
    /\ op = "Create"
    /\ At(calls, 3, "openPublicFirewallPorts")
    /\ At(calls, 4, "openInternalFirewallPorts")
    /\ At(calls, 5, "createInstance")
    /\ err = Nil

\* C7: Start returns a probe error other than not-found without a further call
\* and without touching the driver; for an absent instance it issues the
\* creation and no start, for a present one the start and no creation; it
\* resolves the address only after that call succeeded and caches what it
\* resolved, and a failed call leaves the cached address as it was.
C7_StartBranches ==
    [][(op' = "Start" /\ At(calls', 1, "newComputeUtil") /\ calls'[1].res = Nil) =>
        LET cs == calls' IN
        /\ At(cs, 2, "instance")
        /\ cs[2].res = Transient =>
              Len(cs) = 2 /\ err' = Transient /\ d' = d /\ gce' = gce
        /\ cs[2].res = NotFound =>
              At(cs, 3, "createInstance") /\ ~Has(cs, "startInstance")
        /\ cs[2].res = Nil =>
              At(cs, 3, "startInstance") /\ ~Has(cs, "createInstance")
        /\ cs[2].res # Transient =>
              /\ cs[3].res # Nil =>
                    Len(cs) = 3 /\ err' = cs[3].res /\ d' = d
              /\ cs[3].res = Nil =>
                    /\ At(cs, 4, "newComputeUtil")
                    /\ Has(cs, "ip") => At(cs, 5, "ip")
                    /\ d'.IPAddress = IF err' = Nil THEN AddressOf(d) ELSE ""
                    /\ err' = Nil <=> (At(cs, 5, "ip") /\ cs[5].res = Nil)
    ]_vars

\* C7 witness: the probe failed with a transient error; the cached address stays.
C7_Witness ==
    /\ op = "Start"
    /\ FailedAt(calls, 2, "instance")
    /\ Len(calls) = 2
    /\ d.IPAddress # ""

\* A Start that found the instance absent and in which no call failed.
StartedAbsent(cs) ==
    /\ At(cs, 2, "instance")
    /\ cs[2].res = NotFound
    /\ NoTransient(cs)

\* C8 as claimed: when Start finds the instance absent its effects on the
\* provider are those of Create under the same configuration.
C8_StartIsFullCreate ==
    [][(op' = "Start" /\ StartedAbsent(calls')) =>
        /\ gce' = Create(Ctx, {}).x.gce
        /\ Mutations(calls') = Mutations(Create(Ctx, {}).x.calls)
    ]_vars

\* C8 amended: when Start finds the instance absent it issues the instance
\* creation alone: it reconciles no firewall rule, whatever the open ports and
\* the prefixes, and creates the instance also when useExisting is set; its
\* effects coincide with those of Create when there are no open ports, no
\* internal prefix and useExisting is not set.
C8_StartCreatesInstanceOnly ==
    [][(op' = "Start" /\ StartedAbsent(calls')) =>
        /\ Mutations(calls') = <<"createInstance">>
        /\ gce' = [gce EXCEPT !.instance = "RUNNING", !.disk = TRUE]
        /\ (Len(d.OpenPorts) = 0 /\ d.InternalFirewallRulePrefix = "" /\ ~d.UseExisting) =>
              /\ gce' = Create(Ctx, {}).x.gce
              /\ Mutations(calls') = Mutations(Create(Ctx, {}).x.calls)
    ]_vars

\* C8 witness: Start created the instance with ports to open, a prefix for the
\* external rule, and no external rule there.
C8_Witness ==
    /\ op = "Start"
    /\ StartedAbsent(calls)
    /\ err = Nil
    /\ Len(d.OpenPorts) > 0
    /\ d.ExternalFirewallRulePrefix # ""
    /\ gce.extRule = Absent

\* The first two calls of Restart are Stop's; Stop failed when one of them did.
StopFailed(cs) ==
    \/ At(cs, 1, "newComputeUtil") /\ cs[1].res # Nil /\ Len(cs) = 1
    \/ At(cs, 2, "stopInstance") /\ cs[2].res # Nil /\ Len(cs) = 2

\* C9: in Restart every call of Start comes after a stop call that succeeded;
\* when Stop fails Restart returns its error, issues no call of Start and leaves
\* the cached address as it was.
C9_RestartSequential ==
    [][op' = "Restart" =>
        LET cs == calls' IN
        /\ At(cs, 1, "newComputeUtil")
        /\ cs[1].res = Nil => At(cs, 2, "stopInstance")
        /\ \A i \in 1..Len(cs) :
              cs[i].call \in {"instance", "createInstance", "startInstance", "ip"} =>
                  i > 2 /\ cs[1].res = Nil /\ cs[2].res = Nil
        /\ (cs[1].res # Nil \/ cs[2].res # Nil) =>
              /\ StopFailed(cs)
              /\ err' = cs[Len(cs)].res
              /\ d'.IPAddress = d.IPAddress
        /\ (Len(cs) >= 2 /\ cs[1].res = Nil /\ cs[2].res = Nil) =>
              At(cs, 3, "newComputeUtil")
    ]_vars

\* C9 witness: Stop failed in Restart, and the cached address is still there.
C9_Witness ==
    /\ op = "Restart"
    /\ At(calls, 2, "stopInstance")
    /\ calls[2].res # Nil
    /\ err # Nil
    /\ d.IPAddress # ""

\* C10: a Stop that returns success leaves the cached address empty; a Stop
\* that returns an error leaves it as it was.
C10_StopClearsAddress ==
    [][op' = "Stop" =>
        /\ err' = Nil => d'.IPAddress = ""
        /\ err' # Nil => d'.IPAddress = d.IPAddress
    ]_vars

\* C10 witness: the provider's stop failed and the cached address is kept.
C10_Witness ==
    /\ op = "Stop"
    /\ At(calls, 2, "stopInstance")
    /\ err # Nil
    /\ d.IPAddress # ""
\* The address resolution of a GetIP or GetURL succeeded.
Resolved(cs) == At(cs, 2, "ip") /\ cs[2].res = Nil

C12_OwnershipInvariant ==
    [][op' = "Remove" =>
        /\ gce.extRule # externalFirewallRuleLabelKey => gce'.extRule = gce.extRule
        /\ gce.intRule # internalFirewallRuleLabelKey => gce'.intRule = gce.intRule
        /\ gce'.extRule # gce.extRule =>
              \E i \in 2..Len(calls') :
                  /\ calls'[i - 1].call = "externalFirewallRule"
                  /\ calls'[i].call = "CleanUpFirewallRule"
                  /\ calls'[i].res = Nil
        /\ gce'.intRule # gce.intRule =>
              \E i \in 2..Len(calls') :
                  /\ calls'[i - 1].call = "internalFirewallRule"
                  /\ calls'[i].call = "CleanUpFirewallRule"
                  /\ calls'[i].res = Nil
        /\ \A i \in 2..Len(calls') : calls'[i].call = "CleanUpFirewallRule" =>
              \/ /\ calls'[i - 1].call = "externalFirewallRule"
                 /\ calls'[i].arg = externalFirewallRuleLabelKey
              \/ /\ calls'[i - 1].call = "internalFirewallRule"
                 /\ calls'[i].arg = internalFirewallRuleLabelKey
    ]_vars

\* C12 witness: Remove ran the cleanup on an external rule without the label,
\* and the rule is still there.
C12_Witness ==
    /\ op = "Remove"
    /\ \E i \in 1..Len(calls) :
          /\ calls[i].call = "CleanUpFirewallRule"
          /\ calls[i].arg = externalFirewallRuleLabelKey
          /\ calls[i].res = Nil
    /\ gce.extRule = NoLabel
ReadCalls == {"newComputeUtil", "Projects.Get", "instance", "ReadFile"}

\* C13: PreCreateCheck, whether it succeeds or fails, issues only read calls
\* (the project get and the instance get, after building the client, and the
\* read of the user-data file) and leaves the remote project as it was.
C13_PreCreateCheckReadOnly ==
    [][op' = "PreCreateCheck" =>
        /\ gce' = gce
        /\ \A i \in 1..Len(calls') : calls'[i].call \in ReadCalls
        /\ Mutations(calls') = <<>>
    ]_vars

\* C13 witness: a successful PreCreateCheck on an existing instance that read
\* the user-data file.
C13_Witness ==
    /\ op = "PreCreateCheck"
    /\ err = Nil
    /\ d.UseExisting
    /\ At(calls, 4, "ReadFile")
    /\ gce.instance # Absent

\* C14 as claimed: when the instance probe fails with an error other than
\* not-found PreCreateCheck returns an error, so that without useExisting it
\* never succeeds while an instance exists remotely.
C14_AbsentApartFromFailed ==
    op = "PreCreateCheck" =>
        /\ FailedAt(calls, 3, "instance") => err # Nil
        /\ (~d.UseExisting /\ err = Nil) => gce.instance = Absent

\* C15 as claimed: GetState probes the disk only when the instance is known to
\* be absent: never when an instance was returned and never when the instance
\* probe merely failed; it reports Stopped from the disk only for an instance
\* known not to exist.
C15_DiskOnlyWhenAbsent ==
    (op = "GetState" /\ Has(calls, "disk")) =>
        /\ At(calls, 2, "instance")
        /\ calls[2].res = NotFound
        /\ gce.instance = Absent
\* A firewall step of Remove failed: its fetch, or the cleanup it handed the
\* rule to with its label key, ended in an error other than not-found.
StepFailed(cs, fetch, key) ==
    \E i \in 1..Len(cs) :
        /\ cs[i].res \notin {Nil, NotFound}
        /\ \/ cs[i].call = fetch
           \/ cs[i].call = "CleanUpFirewallRule" /\ cs[i].arg = key

DeletesPassed(cs) ==
    /\ At(cs, 2, "deleteInstance") /\ (isNotFound(cs[2].res) \/ cs[2].res = Nil)
    /\ At(cs, 3, "deleteDisk") /\ (isNotFound(cs[3].res) \/ cs[3].res = Nil)

\* C16: with open ports and an internal prefix configured, once the instance
\* and the disk deletes have passed, a failure of the external step (fetch or
\* cleanup) never keeps Remove from fetching the internal rule, and Remove's
\* error is non-nil exactly when one of the two steps failed with an error
\* other than not-found, holding one error per failed step.
C16_FirewallStepsIndependent ==
    (/\ op = "Remove"
     /\ Len(d.OpenPorts) > 0
     /\ d.InternalFirewallRulePrefix # ""
     /\ DeletesPassed(calls)) =>
        LET ext == StepFailed(calls, "externalFirewallRule", externalFirewallRuleLabelKey)
            int == StepFailed(calls, "internalFirewallRule", internalFirewallRuleLabelKey)
        IN
        /\ At(calls, 4, "externalFirewallRule")
        /\ At(calls, 4 + RuleStepLen(calls, 4), "internalFirewallRule")
        /\ RuleStepDone(calls, 4 + RuleStepLen(calls, 4), "internalFirewallRule")
        /\ err # Nil <=> ext \/ int
        /\ Len(err) = (IF ext THEN 1 ELSE 0) + (IF int THEN 1 ELSE 0)
        /\ \A i \in 1..Len(err) : <<err[i]>> = Transient

\* C16 witness: both firewall steps failed, the external one in its cleanup,
\* and Remove returned the two errors.
C16_Witness ==
    /\ op = "Remove"
    /\ DeletesPassed(calls)
    /\ FailedAt(calls, 5, "CleanUpFirewallRule")
    /\ FailedAt(calls, 6, "internalFirewallRule")
    /\ Len(err) = 2

TolerantCalls ==
    {"deleteInstance", "deleteDisk", "externalFirewallRule", "internalFirewallRule"}

\* C17: a not-found result of the instance delete, of the disk delete or of a
\* rule fetch is never part of Remove's error and never stops the steps that
\* follow it; the external rule is fetched only with open ports and the
\* internal rule only with an internal prefix, and a Remove whose calls end in
\* success or not-found returns success.
C17_RemoveToleratesNotFound ==
    op = "Remove" =>
        /\ \A i \in 1..Len(err) : <<err[i]>> # NotFound
        /\ \A i \in 1..Len(calls) : calls[i].res = NotFound => calls[i].call \in TolerantCalls
        /\ (At(calls, 2, "deleteInstance") /\ calls[2].res = NotFound) =>
              At(calls, 3, "deleteDisk")
        /\ (At(calls, 3, "deleteDisk") /\ calls[3].res = NotFound) =>
              /\ Len(d.OpenPorts) > 0 => At(calls, 4, "externalFirewallRule")
              /\ (Len(d.OpenPorts) = 0 /\ d.InternalFirewallRulePrefix # "") =>
                    At(calls, 4, "internalFirewallRule")
        /\ (At(calls, 4, "externalFirewallRule") /\ calls[4].res = NotFound
            /\ d.InternalFirewallRulePrefix # "") =>
              At(calls, 5, "internalFirewallRule")
        /\ Has(calls, "externalFirewallRule") => Len(d.OpenPorts) > 0
        /\ Has(calls, "internalFirewallRule") => d.InternalFirewallRulePrefix # ""
        /\ (\A i \in 1..Len(calls) : calls[i].res \in {Nil, NotFound}) => err = Nil

\* C17 witness: a Remove that met not-found at the instance, the disk and both
\* rule fetches and returned success.
C17_Witness ==
    /\ op = "Remove"
    /\ err = Nil
    /\ Len(calls) = 5
    /\ \A i \in 2..5 : calls[i].res = NotFound
    /\ At(calls, 4, "externalFirewallRule")
    /\ At(calls, 5, "internalFirewallRule")
\* C18: from every state of the driver and of the remote project, Kill issues
\* the calls of Stop with the same results, returns what Stop returns and
\* leaves the driver and the project as Stop leaves them: the cached address
\* is empty after a success and as it was after a failure.
C18_KillIsStop ==
    [][op' = "Kill" =>
        /\ \E F \in Faults(2) :
              LET s == Stop(Ctx, F) IN
              /\ calls' = s.x.calls
              /\ err' = s.err
              /\ ret' = s.val
              /\ d' = s.x.d
              /\ gce' = s.x.gce
        /\ err' = Nil => d'.IPAddress = ""
        /\ err' # Nil => d'.IPAddress = d.IPAddress
    ]_vars

\* C18 witness: a successful Kill stopped the instance and cleared the address.
C18_Witness ==
    /\ op = "Kill"
    /\ err = Nil
    /\ At(calls, 2, "stopInstance")
    /\ gce.instance = "TERMINATED"
    /\ d.IPAddress = ""

PowerOps == {"Start", "Stop", "Restart", "Kill"}

\* The create or start action of a Start succeeded.
Powered(cs) ==
    \E i \in 1..Len(cs) :
        cs[i].call \in {"createInstance", "startInstance"} /\ cs[i].res = Nil

\* C19: after a Start, Stop, Restart or Kill the cached address is non-empty
\* only if the call was a successful Start (alone or as the second half of
\* Restart) or a failing call that left the address as it was; a successful
\* Start leaves a non-empty address, and a Start whose create or start action
\* succeeded and whose address resolution then failed returns the error and
\* leaves the address empty, not the earlier one.
C19_CachedAddress ==
    [][op' \in PowerOps =>
        /\ d'.IPAddress # "" =>
              \/ op' \in {"Start", "Restart"} /\ err' = Nil
              \/ err' # Nil /\ d'.IPAddress = d.IPAddress
        /\ (op' = "Start" /\ err' = Nil) =>
              Powered(calls') /\ d'.IPAddress # ""
        /\ (op' = "Start" /\ Powered(calls') /\ err' # Nil) =>
              d'.IPAddress = ""
    ]_vars

\* C19 witness: Start started the instance, the address resolution failed, and
\* the cached address is empty.
C19_Witness ==
    /\ op = "Start"
    /\ At(calls, 3, "startInstance")
    /\ calls[3].res = Nil
    /\ FailedAt(calls, 5, "ip")
    /\ err = Transient
    /\ d.IPAddress = ""
    /\ gce.instance = "RUNNING"
\* C20 as claimed: with a user-data file path configured and nothing failing,
\* a second PreCreateCheck after a successful first one returns the same
\* result and leaves the driver's user-data field unchanged.
C20_PreCreateCheckRepeatable ==
    [][(/\ op = "PreCreateCheck"
        /\ err = Nil
        /\ At(calls, 4, "ReadFile")
        /\ calls[4].arg = UserdataPath
        /\ NoTransient(calls)
        /\ op' = "PreCreateCheck"
        /\ NoTransient(calls')) =>
        /\ err' = err
        /\ d'.Userdata = d.Userdata
    ]_vars
====
